---- MODULE Spec2Model ----
(***************************************************************************)
(* A model of the numeric pipeline of AstroSpecVis: temporal binning       *)
(* (utils/utils.py), median normalisation (models/data_processor.py),      *)
(* table extraction (models/data_loader.py) and the two plotting entry     *)
(* points of models/lightcurve_plotter.py up to the point where the        *)
(* computed grids are handed to the renderer.                              *)
(*                                                                         *)
(* Floating point values are modelled as binary floating point numbers of  *)
(* MantissaBits bits of precision and unbounded exponent (a double has 53  *)
(* bits), held as rationals in lowest terms and extended with NaN, +Inf    *)
(* and -Inf; every addition, multiplication and division rounds its exact  *)
(* result to the nearest representable number, ties to even, as IEEE-754   *)
(* does.                                                                   *)
(* numpy arrays are modelled as sequences (1-D) and as records             *)
(* [rows, cols, v] holding a sequence of rows (2-D), so that the shape of  *)
(* an empty array is kept, as numpy keeps it.                              *)
(***************************************************************************)
EXTENDS Integers, Sequences, FiniteSets, TLC

VARIABLES pc, req, out

vars == <<pc, req, out>>

(***************************************************************************)
(* Numbers                                                                 *)
(***************************************************************************)
Abs(x) == IF x < 0 THEN -x ELSE x

Sign(x) == IF x < 0 THEN -1 ELSE IF x > 0 THEN 1 ELSE 0

RECURSIVE GCD(_, _)
GCD(a, b) == IF b = 0 THEN a ELSE GCD(b, a % b)

\* The rational n/d (d # 0) in lowest terms with a positive denominator.
Rat(n, d) ==
    LET g == GCD(Abs(n), Abs(d))
        s == IF d < 0 THEN -1 ELSE 1
    IN  [k |-> "fin", n |-> (s * n) \div g, d |-> (s * d) \div g]

Num(n) == [k |-> "fin", n |-> n, d |-> 1]

\* Bits of precision of a float.
MantissaBits == 5

\* The power of two by which a/d is multiplied to reach 2^(MantissaBits-1).
RECURSIVE ScaleUp(_, _)
ScaleUp(a, d) ==
    IF a >= 2^(MantissaBits - 1) * d THEN 1 ELSE 2 * ScaleUp(2 * a, d)

\* The power of two by which a/d is divided to come below 2^MantissaBits.
RECURSIVE ScaleDown(_, _)
ScaleDown(a, d) ==
    IF a < 2^MantissaBits * d THEN 1 ELSE 2 * ScaleDown(a, 2 * d)

\* a/d (a >= 0, d > 0) rounded to the nearest integer, ties to even.
RoundHalfEven(a, d) ==
    LET q == a \div d
        r == a % d
    IN  IF 2 * r > d \/ (2 * r = d /\ q % 2 = 1) THEN q + 1 ELSE q

\* The float nearest to the exact result n/d (d # 0) of an operation.
Round(n, d) ==
    IF n = 0 THEN [k |-> "fin", n |-> 0, d |-> 1]
    ELSE
        LET a == Abs(n)
            b == Abs(d)
            up == ScaleUp(a, b)
            down == ScaleDown(a, b)
            m == RoundHalfEven(a * up, b * down)
        IN  Rat(Sign(n) * Sign(d) * m * down, up)

NaN == [k |-> "nan", n |-> 0, d |-> 1]

PInf == [k |-> "inf", n |-> 1, d |-> 1]

NInf == [k |-> "inf", n |-> -1, d |-> 1]

Inf(s) == IF s < 0 THEN NInf ELSE PInf

IsNaN(x) == x.k = "nan"

IsFinite(x) == x.k = "fin"

Neg(x) == IF x.k = "nan" THEN NaN ELSE [x EXCEPT !.n = -x.n]

\* x + y in IEEE arithmetic: inf + (-inf) is NaN.
Add(x, y) ==
    CASE x.k = "nan" \/ y.k = "nan" -> NaN
      [] x.k = "inf" /\ y.k = "inf" -> IF x.n = y.n THEN x ELSE NaN
      [] x.k = "inf" -> x
      [] y.k = "inf" -> y
      [] OTHER -> Round(x.n * y.d + y.n * x.d, x.d * y.d)

Sub(x, y) == Add(x, Neg(y))

\* x * y in IEEE arithmetic: inf * 0 is NaN.
Mul(x, y) ==
    CASE x.k = "nan" \/ y.k = "nan" -> NaN
      [] x.k = "inf" \/ y.k = "inf" ->
            IF x.n = 0 \/ y.n = 0 THEN NaN ELSE Inf(Sign(x.n) * Sign(y.n))
      [] OTHER -> Round(x.n * y.n, x.d * y.d)

\* x / y in IEEE arithmetic: 0/0 and inf/inf are NaN, x/0 is an infinity
\* (the zero is taken as +0.0), x/inf is 0.
Div(x, y) ==
    CASE x.k = "nan" \/ y.k = "nan" -> NaN
      [] x.k = "inf" /\ y.k = "inf" -> NaN
      [] x.k = "inf" -> Inf(x.n * (IF y.n < 0 THEN -1 ELSE 1))
      [] y.k = "inf" -> Num(0)
      [] y.n = 0 -> IF x.n = 0 THEN NaN ELSE Inf(x.n)
      [] OTHER -> Round(x.n * y.d, x.d * y.n)

\* x <= y for two values that are not NaN.
Leq(x, y) ==
    CASE x.k = "inf" -> x.n < 0 \/ (y.k = "inf" /\ y.n > 0)
      [] y.k = "inf" -> y.n > 0
      [] OTHER -> x.n * y.d <= y.n * x.d

(***************************************************************************)
(* numpy helpers                                                           *)
(***************************************************************************)
RECURSIVE Insert(_, _)
Insert(x, s) ==
    IF s = <<>> THEN <<x>>
    ELSE IF Leq(x, Head(s)) THEN <<x>> \o s
    ELSE <<Head(s)>> \o Insert(x, Tail(s))

RECURSIVE Sort(_)
Sort(s) == IF s = <<>> THEN <<>> ELSE Insert(Head(s), Sort(Tail(s)))

RECURSIVE Sum(_)
Sum(s) == IF s = <<>> THEN Num(0) ELSE Add(Head(s), Sum(Tail(s)))

NotNaN(x) == ~IsNaN(x)

\* The middle of a sorted sequence without NaN: the middle element, or the
\* mean of the two middle elements; NaN for an empty sequence.
Middle(s) ==
    LET n == Len(s)
    IN  IF n = 0 THEN NaN
        ELSE IF n % 2 = 1 THEN s[(n + 1) \div 2]
        ELSE Div(Add(s[n \div 2], s[(n \div 2) + 1]), Num(2))

\* np.nanmedian of a 1-D sequence.
NanMedian(s) == Middle(Sort(SelectSeq(s, NotNaN)))

\* np.median of a 1-D sequence: NaN as soon as one element is NaN.
Median(s) ==
    IF \E i \in 1..Len(s) : IsNaN(s[i]) THEN NaN ELSE Middle(Sort(s))

\* np.mean of a 1-D sequence: NaN for an empty one.
Mean(s) == IF s = <<>> THEN NaN ELSE Div(Sum(s), Num(Len(s)))

\* np.nanmean of a 1-D sequence: the mean of the elements that are not NaN.
NanMean(s) == Mean(SelectSeq(s, NotNaN))

\* A 2-D array of shape (rows, cols).
Grid(rows, cols, v) == [rows |-> rows, cols |-> cols, v |-> v]

\* a[:, :n] of a 2-D array.
SliceCols(g, n) ==
    LET c == IF n < g.cols THEN n ELSE g.cols
    IN  Grid(g.rows, c, [i \in 1..g.rows |-> SubSeq(g.v[i], 1, c)])

\* a[n:, :] of a 2-D array.
SliceRowsFrom(g, n) ==
    LET r == IF g.rows > n THEN g.rows - n ELSE 0
    IN  Grid(r, g.cols, [i \in 1..r |-> g.v[i + n]])

\* a[::step] of a 1-D array, for step > 0: the elements at 0, step, 2*step...
Stride(s, step) ==
    LET n == (Len(s) + step - 1) \div step
    IN  [i \in 1..n |-> s[(i - 1) * step + 1]]

\* flat.reshape(-1, cols) for cols > 0 dividing len(flat): row-major.
ReshapeRows(flat, cols) ==
    [i \in 1..(Len(flat) \div cols) |-> SubSeq(flat, (i - 1) * cols + 1, i * cols)]

\* int(x) of a number: truncation toward zero.
PyInt(x) == Sign(x.n) * (Abs(x.n) \div x.d)

Ok(v) == [status |-> "ok", value |-> v]

Raise(e) == [status |-> e, value |-> <<>>]

(***************************************************************************)
(* utils/utils.py                                                          *)
(***************************************************************************)
\* median_bin(input_array, bin_size), bin_size an integer.
median_bin(input_array, bin_size) ==
    IF bin_size = 0 THEN Raise("ZeroDivisionError")
    ELSE IF bin_size < 0 THEN Raise("ValueError")
    ELSE
        LET end_index == bin_size * (Len(input_array) \div bin_size)
            windows == ReshapeRows(SubSeq(input_array, 1, end_index), bin_size)
        IN  Ok([i \in 1..Len(windows) |-> NanMedian(windows[i])])

\* bin_flux_array with np.mean in place of np.nanmean.
bin_flux_array_mean(flux_data, bin_size) ==
    LET b == PyInt(bin_size)
    IN  IF b = 0 THEN Raise("ZeroDivisionError")
        ELSE IF b < 0 THEN Raise("ValueError")
        ELSE
            LET binned_timepoints == flux_data.cols \div b
                cut == SliceCols(flux_data, binned_timepoints * b)
            IN  Ok(Grid(flux_data.rows, binned_timepoints,
                    [i \in 1..flux_data.rows |->
                        LET windows == ReshapeRows(cut.v[i], b)
                        IN  [j \in 1..binned_timepoints |-> Mean(windows[j])]]))

\* bin_flux_array(flux_data, bin_size), flux_data 2-D, bin_size a number
\* (int(bin_size) truncates it; the isinstance check that follows is then
\* always passed).
bin_flux_array(flux_data, bin_size) ==
    LET b == PyInt(bin_size)
        num_wavelengths == flux_data.rows
        num_timepoints == flux_data.cols
    IN  IF b = 0 THEN Raise("ZeroDivisionError")
        ELSE IF b < 0 THEN Raise("ValueError")
        ELSE
            LET binned_timepoints == num_timepoints \div b
                cut == SliceCols(flux_data, binned_timepoints * b)
            IN  Ok(Grid(num_wavelengths, binned_timepoints,
                    [i \in 1..num_wavelengths |->
                        LET windows == ReshapeRows(cut.v[i], b)
                        IN  [j \in 1..binned_timepoints |-> NanMean(windows[j])]]))

(***************************************************************************)
(* models/data_processor.py                                                *)
(***************************************************************************)
\* A 1-D array as normalize_spectrum receives it.
Array1(v) == [ndim |-> 1, rows |-> 1, cols |-> Len(v), v |-> v]

\* A 2-D array as normalize_spectrum receives it.
Array2(g) == [ndim |-> 2, rows |-> g.rows, cols |-> g.cols, v |-> g.v]

\* An array of more than two dimensions: only its ndim is read.
Array3 == [ndim |-> 3, rows |-> 0, cols |-> 0, v |-> <<>>]

RECURSIVE Flatten(_)
Flatten(rows) == IF rows = <<>> THEN <<>> ELSE Head(rows) \o Flatten(Tail(rows))

\* normalize_spectrum dividing a 2-D array by one median of all its samples.
normalize_spectrum_global(spectral_data) ==
    IF spectral_data.ndim = 1 THEN
        LET median_spectrum == NanMedian(spectral_data.v)
        IN  Ok(Array1([i \in 1..spectral_data.cols |->
                          Div(spectral_data.v[i], median_spectrum)]))
    ELSE IF spectral_data.ndim = 2 THEN
        LET median_spectrum == NanMedian(Flatten(spectral_data.v))
        IN  Ok(Array2(Grid(spectral_data.rows, spectral_data.cols,
                [i \in 1..spectral_data.rows |->
                    [j \in 1..spectral_data.cols |->
                        Div(spectral_data.v[i][j], median_spectrum)]])))
    ELSE Raise("ValueError")

\* normalize_spectrum dividing by the NaN-ignoring mean in place of the
\* median.
normalize_spectrum_mean(spectral_data) ==
    IF spectral_data.ndim = 1 THEN
        Ok(Array1([i \in 1..spectral_data.cols |->
                      Div(spectral_data.v[i], NanMean(spectral_data.v))]))
    ELSE IF spectral_data.ndim = 2 THEN
        Ok(Array2(Grid(spectral_data.rows, spectral_data.cols,
                [i \in 1..spectral_data.rows |->
                    [j \in 1..spectral_data.cols |->
                        Div(spectral_data.v[i][j], NanMean(spectral_data.v[i]))]])))
    ELSE Raise("ValueError")

\* normalize_spectrum(spectral_data).
normalize_spectrum(spectral_data) ==
    IF spectral_data.ndim = 1 THEN
        LET median_spectrum == NanMedian(spectral_data.v)
        IN  Ok(Array1([i \in 1..spectral_data.cols |->
                          Div(spectral_data.v[i], median_spectrum)]))
    ELSE IF spectral_data.ndim = 2 THEN
        \* np.nanmedian(axis=1, keepdims=True): one median per row
        LET median_spectrum ==
                [i \in 1..spectral_data.rows |-> NanMedian(spectral_data.v[i])]
        IN  Ok(Array2(Grid(spectral_data.rows, spectral_data.cols,
                [i \in 1..spectral_data.rows |->
                    [j \in 1..spectral_data.cols |->
                        Div(spectral_data.v[i][j], median_spectrum[i])]])))
    ELSE Raise("ValueError")

(***************************************************************************)
(* models/data_loader.py                                                   *)
(***************************************************************************)
RECURSIVE Dedup(_)
Dedup(s) ==
    IF Len(s) < 2 THEN s
    ELSE IF s[1] = s[2] THEN Dedup(Tail(s))
    ELSE <<Head(s)>> \o Dedup(Tail(s))

\* np.unique of a 1-D column: its distinct values, ascending.
Unique(col) == Dedup(Sort(col))

\* column.reshape(rows, -1) cutting the samples that do not fill a row
\* instead of failing.
ReshapeTruncating(flat, rows) ==
    IF rows = 0 THEN Raise("ValueError")
    ELSE
        LET cols == Len(flat) \div rows
        IN  Ok(Grid(rows, cols,
                [i \in 1..rows |-> SubSeq(flat, (i - 1) * cols + 1, i * cols)]))

\* column.reshape(rows, -1): fails unless rows > 0 divides the length.
Reshape(flat, rows) ==
    IF rows = 0 \/ Len(flat) % rows # 0 THEN Raise("ValueError")
    ELSE
        LET cols == Len(flat) \div rows
        IN  Ok(Grid(rows, cols,
                [i \in 1..rows |-> SubSeq(flat, (i - 1) * cols + 1, i * cols)]))

\* extract_miri_data(miri_table); the table is a record of equally long
\* columns wla, wlb, fluxa, fluxb, MJD.
extract_miri_data(miri_table) ==
    LET unique_wavelengths_a == Unique(miri_table.wla)
        unique_wavelengths_b == Unique(miri_table.wlb)
        unique_times == Unique(miri_table.MJD)
        spectra_a_2d == Reshape(miri_table.fluxa, Len(unique_wavelengths_a))
        spectra_b_2d == Reshape(miri_table.fluxb, Len(unique_wavelengths_b))
    IN  IF spectra_a_2d.status # "ok" THEN Raise(spectra_a_2d.status)
        ELSE IF spectra_b_2d.status # "ok" THEN Raise(spectra_b_2d.status)
        ELSE Ok([unique_times |-> unique_times,
                 unique_wavelengths_a |-> unique_wavelengths_a,
                 unique_wavelengths_b |-> unique_wavelengths_b,
                 spectra_a_2d |-> spectra_a_2d.value,
                 spectra_b_2d |-> spectra_b_2d.value])

(***************************************************************************)
(* models/lightcurve_plotter.py                                            *)
(***************************************************************************)
\* wavelength_grid[60:, :], time_grid[60:, :], z_data[60:, :]
LeadingTrim == 60

ch4_range == <<Rat(214, 100), Rat(25, 10)>>

co_range == <<Rat(45, 10), Rat(505, 100)>>

\* (x >= range[0]) & (x <= range[1])
InRange(x, range) == ~IsNaN(x) /\ Leq(range[1], x) /\ Leq(x, range[2])

\* np.min of a non-empty 1-D sequence without NaN.
Min(s) == Sort(s)[1]

\* (times - times.min()) * 24, times not empty
TimeHours(times) ==
    [j \in 1..Len(times) |-> Mul(Sub(times[j], Min(times)), Num(24))]

\* np.meshgrid(time_hours, wavelengths): the time grid and the wavelength
\* grid, both of shape (len(wavelengths), len(time_hours)).
MeshTime(time_hours, wavelengths) ==
    Grid(Len(wavelengths), Len(time_hours), [i \in 1..Len(wavelengths) |-> time_hours])

MeshWavelength(time_hours, wavelengths) ==
    Grid(Len(wavelengths), Len(time_hours),
         [i \in 1..Len(wavelengths) |-> [j \in 1..Len(time_hours) |-> wavelengths[i]]])

\* np.nanmedian(flux, axis=1, keepdims=True) and
\* np.where(np.isfinite(flux), ((flux / median) - 1) * 100, np.nan)
Variability(flux) ==
    LET median_flux == [i \in 1..flux.rows |-> NanMedian(flux.v[i])]
    IN  Grid(flux.rows, flux.cols,
            [i \in 1..flux.rows |-> [j \in 1..flux.cols |->
                IF IsFinite(flux.v[i][j])
                THEN Mul(Sub(Div(flux.v[i][j], median_flux[i]), Num(1)), Num(100))
                ELSE NaN]])

\* np.any(np.isfinite(z))
AnyFinite(z) == \E i \in 1..z.rows : \E j \in 1..z.cols : IsFinite(z.v[i][j])

BandMask(wavelength_grid, range) ==
    Grid(wavelength_grid.rows, wavelength_grid.cols,
         [i \in 1..wavelength_grid.rows |-> [j \in 1..wavelength_grid.cols |->
             InRange(wavelength_grid.v[i][j], range)]])

EmptyGrid == Grid(0, 0, <<>>)

\* The z grid of the surface: the variability of the binned flux, or the
\* binned flux itself (plot_type is 'variability' or 'flux').
ZDataRescaled(plot_type, flux) ==
    IF plot_type = "variability" THEN Variability(flux)
    ELSE Grid(flux.rows, flux.cols,
            [i \in 1..flux.rows |-> [j \in 1..flux.cols |->
                Div(flux.v[i][j], NanMedian(flux.v[i]))]])

ZDataUnguarded(plot_type, flux) ==
    IF plot_type = "variability" THEN
        Grid(flux.rows, flux.cols,
            [i \in 1..flux.rows |-> [j \in 1..flux.cols |->
                Mul(Sub(Div(flux.v[i][j], NanMedian(flux.v[i])), Num(1)), Num(100))]])
    ELSE flux

ZData(plot_type, flux) ==
    IF plot_type = "variability" THEN Variability(flux) ELSE flux

\* What a call of plot_enhanced_lightcurve_map leaves behind: how it ended
\* (status "ok" is a normal return, otherwise the exception raised to the
\* caller), the statement it ended at, whether the HTML file was written, and
\* the arrays computed by then: the shape of the binned flux, the binned
\* times, the elapsed hours and the trimmed grids.
MapResult(status, at, written, shape, times, time_hours, tg, wg, z, ch4, co) ==
    [status |-> status, at |-> at, written |-> written, flux_shape |-> shape,
     times |-> times, time_hours |-> time_hours, time_grid |-> tg,
     wavelength_grid |-> wg, z_data |-> z, ch4_mask |-> ch4, co_mask |-> co]

MapRaise(e, at) ==
    MapResult(e, at, FALSE, <<0, 0>>, <<>>, <<>>, EmptyGrid, EmptyGrid, EmptyGrid,
              EmptyGrid, EmptyGrid)

\* plot_enhanced_lightcurve_map(flux_data, wavelengths, times, bin_size,
\* plot_type); the figure is built and written by plotly from the arrays of
\* the result.
plot_enhanced_lightcurve_map(flux_data, wavelengths, times, bin_size, plot_type) ==
    LET b == PyInt(bin_size)
        binned == bin_flux_array(flux_data, Num(b))
    IN  IF binned.status # "ok" THEN MapRaise(binned.status, "bin_flux_array")
        ELSE
        LET flux == binned.value
            times_b == Stride(times, b)
            num_wavelengths == flux.rows
            num_times == flux.cols
            shape == <<num_wavelengths, num_times>>
        IN  IF num_times = 0 THEN
                \* "No time points available after binning": return
                MapResult("ok", "no_time_points", FALSE, shape, times_b, <<>>,
                          EmptyGrid, EmptyGrid, EmptyGrid, EmptyGrid, EmptyGrid)
            ELSE
            LET time_hours == TimeHours(times_b)
                time_grid == SliceCols(MeshTime(time_hours, wavelengths), num_times)
                wavelength_grid ==
                    SliceCols(MeshWavelength(time_hours, wavelengths), num_times)
            IN  IF plot_type \notin {"variability", "flux"} THEN
                    MapRaise("ValueError", "plot_type")
                ELSE
                LET z_data == ZData(plot_type, flux)
                    wg == SliceRowsFrom(wavelength_grid, LeadingTrim)
                    tg == SliceRowsFrom(time_grid, LeadingTrim)
                    z == SliceRowsFrom(z_data, LeadingTrim)
                IN  IF ~AnyFinite(z) THEN
                        \* "No finite values in z_data after slicing": return
                        MapResult("ok", "no_finite_values", FALSE, shape, times_b,
                                  time_hours, tg, wg, z, EmptyGrid, EmptyGrid)
                    ELSE
                        MapResult("ok", "write_html", TRUE, shape, times_b,
                                  time_hours, tg, wg, z,
                                  BandMask(wg, ch4_range), BandMask(wg, co_range))

\* np.where(mask)[0]: the indices of the wavelengths in the band, ascending.
BandIndices(wavelengths, range) ==
    SelectSeq([i \in 1..Len(wavelengths) |-> i],
              LAMBDA i : InRange(wavelengths[i], range))

\* np.mean(flux[indices, :], axis=0): per time step, the mean over the rows
\* selected.
BandMean(flux, indices) ==
    [j \in 1..flux.cols |-> Mean([r \in 1..Len(indices) |-> flux.v[indices[r]][j]])]

\* lightcurve / np.median(lightcurve)
NormalizeLightcurve(lightcurve) ==
    [j \in 1..Len(lightcurve) |-> Div(lightcurve[j], Median(lightcurve))]

BandResult(status, written, flux, time_hours, ch4, co) ==
    [status |-> status, written |-> written, flux |-> flux,
     time_hours |-> time_hours, ch4_lightcurve |-> ch4, co_lightcurve |-> co]

\* plot_specific_wavelength_lightcurves(flux_data, wavelengths, times,
\* bin_size); the two traces are drawn and written by plotly from the arrays
\* of the result.
plot_specific_wavelength_lightcurves(flux_data, wavelengths, times, bin_size) ==
    LET b == PyInt(bin_size)
        binned == bin_flux_array(flux_data, Num(b))
    IN  IF binned.status # "ok" THEN
            BandResult(binned.status, FALSE, EmptyGrid, <<>>, <<>>, <<>>)
        ELSE
        LET flux == binned.value
            times_b == Stride(times, b)
        IN  IF times_b = <<>> THEN
                \* times.min() of an empty array
                BandResult("ValueError", FALSE, flux, <<>>, <<>>, <<>>)
            ELSE
            LET time_hours == TimeHours(times_b)
                ch4_indices == BandIndices(wavelengths, ch4_range)
                co_indices == BandIndices(wavelengths, co_range)
                ch4_lightcurve == BandMean(flux, ch4_indices)
                co_lightcurve == BandMean(flux, co_indices)
            IN  BandResult("ok", TRUE, flux, time_hours,
                           NormalizeLightcurve(ch4_lightcurve),
                           NormalizeLightcurve(co_lightcurve))

(***************************************************************************)
(* Inputs                                                                  *)
(***************************************************************************)
MaxLen == 4

MaxT == 3

MaxBin == 3

\* Row counts of the small grids.
GridRows == 0..2

Samples1D == {NaN, Num(1), Num(2), PInf}

Samples2D == {NaN, Num(1), Num(4)}

\* bin_size as callers may pass it: multiples of one half, from -1 upward.
BinSizes == {Rat(h, 2) : h \in -2..(2 * MaxBin)}

IsPositiveInt(x) == x.k = "fin" /\ x.d = 1 /\ x.n > 0

(***************************************************************************)
(* The binning functions, called on their own                              *)
(***************************************************************************)
InitBin ==
    /\ pc = "call"
    /\ out = Raise("none")
    /\ \/ \E n \in 0..MaxLen :
            \E a \in [1..n -> Samples1D], b \in -1..MaxBin :
                req = [fn |-> "median_bin", data |-> a, bin_size |-> Num(b)]
       \/ \E r \in GridRows, c \in 0..MaxT :
            \E v \in [1..r -> [1..c -> Samples2D]], b \in BinSizes :
                req = [fn |-> "bin_flux_array", data |-> Grid(r, c, v), bin_size |-> b]

CallMedianBin ==
    /\ pc = "call"
    /\ req.fn = "median_bin"
    /\ out' = median_bin(req.data, req.bin_size.n)
    /\ pc' = "done"
    /\ UNCHANGED req

CallBinFluxArray ==
    /\ pc = "call"
    /\ req.fn = "bin_flux_array"
    /\ out' = bin_flux_array(req.data, req.bin_size)
    /\ pc' = "done"
    /\ UNCHANGED req

NextBin == CallMedianBin \/ CallBinFluxArray

SpecBin == InitBin /\ [][NextBin]_vars

\* C1: for every positive integer bin_size b, median_bin of a 1-D array of
\* length N has length N div b and bin_flux_array of a (W, T) grid has shape
\* (W, T div b); output element k is the NaN-ignoring median (median_bin) or
\* mean (bin_flux_array) of input samples (k-1)*b+1 .. k*b of its row, so the
\* trailing T mod b samples are read by no output element.
C1_BinWindows ==
    (pc = "done" /\ IsPositiveInt(req.bin_size)) =>
        LET b == req.bin_size.n
        IN  /\ out.status = "ok"
            /\ req.fn = "median_bin" =>
                  /\ Len(out.value) = Len(req.data) \div b
                  /\ \A k \in 1..Len(out.value) :
                        out.value[k] =
                            NanMedian(SubSeq(req.data, (k - 1) * b + 1, k * b))
            /\ req.fn = "bin_flux_array" =>
                  /\ out.value.rows = req.data.rows
                  /\ out.value.cols = req.data.cols \div b
                  /\ Len(out.value.v) = out.value.rows
                  /\ \A i \in 1..out.value.rows :
                        /\ Len(out.value.v[i]) = out.value.cols
                        /\ \A k \in 1..out.value.cols :
                              out.value.v[i][k] =
                                  NanMean(SubSeq(req.data.v[i], (k - 1) * b + 1, k * b))

\* A grid binned with a remainder, a window holding a NaN beside a number.
C1_Witness ==
    /\ pc = "done"
    /\ req.fn = "bin_flux_array"
    /\ req.bin_size = Num(2)
    /\ req.data.rows = 2
    /\ req.data.cols = 3
    /\ req.data.v[1] = <<NaN, Num(4), Num(1)>>
    /\ out.status = "ok"
    /\ out.value.v[1] = <<Num(4)>>

\* C8 (the claim as stated, any error counted as the failure it asks for):
\* bin_flux_array called with a bin_size that is not a positive integer
\* (zero, negative or non-integral) fails and returns no binned grid.
C8_InvalidBinSizeFails ==
    (pc = "done" /\ req.fn = "bin_flux_array" /\ ~IsPositiveInt(req.bin_size)) =>
        out.status # "ok"

(***************************************************************************)
(* normalize_spectrum, called on its own                                   *)
(***************************************************************************)
SamplesNorm1D == {NaN, Num(0), Num(2), Num(4), Num(10)}

SamplesNorm2D == {NaN, Num(0), Num(2), Num(10)}

InitNorm ==
    /\ pc = "call"
    /\ out = Raise("none")
    /\ \/ \E n \in 0..MaxLen :
            \E a \in [1..n -> SamplesNorm1D] :
                req = [fn |-> "normalize_spectrum", data |-> Array1(a)]
       \/ \E r \in GridRows, c \in 0..MaxT :
            \E v \in [1..r -> [1..c -> SamplesNorm2D]] :
                req = [fn |-> "normalize_spectrum", data |-> Array2(Grid(r, c, v))]
       \/ req = [fn |-> "normalize_spectrum", data |-> Array3]

CallNormalize ==
    /\ pc = "call"
    /\ req.fn = "normalize_spectrum"
    /\ out' = normalize_spectrum(req.data)
    /\ pc' = "done"
    /\ UNCHANGED req

NextNorm == CallNormalize

SpecNorm == InitNorm /\ [][NextNorm]_vars

\* C2: normalize_spectrum divides every element of a 1-D array by the
\* NaN-ignoring median of the whole array, and every element of a 2-D array
\* by the NaN-ignoring median of its own row; the output has the shape of the
\* input, and normalize([2,4,4,10]) = [0.5,1,1,2.5].
C2_Normalize ==
    (pc = "done" /\ req.data.ndim \in {1, 2}) =>
        /\ out.status = "ok"
        /\ out.value.ndim = req.data.ndim
        /\ out.value.rows = req.data.rows
        /\ out.value.cols = req.data.cols
        /\ Len(out.value.v) = Len(req.data.v)
        /\ req.data.ndim = 1 =>
              \A i \in 1..req.data.cols :
                  out.value.v[i] = Div(req.data.v[i], NanMedian(req.data.v))
        /\ req.data.ndim = 2 =>
              \A i \in 1..req.data.rows :
                  /\ Len(out.value.v[i]) = req.data.cols
                  /\ \A j \in 1..req.data.cols :
                        out.value.v[i][j] =
                            Div(req.data.v[i][j], NanMedian(req.data.v[i]))
        /\ req.data = Array1(<<Num(2), Num(4), Num(4), Num(10)>>) =>
              out.value.v = <<Rat(1, 2), Num(1), Num(1), Rat(5, 2)>>

\* A 2-D array whose two rows have different medians, one row holding a NaN.
C2_Witness ==
    /\ pc = "done"
    /\ req.data.ndim = 2
    /\ req.data.v = <<<<Num(0), NaN, Num(10)>>, <<Num(10), Num(2), Num(2)>>>>
    /\ out.value.v = <<<<Num(0), NaN, Num(2)>>, <<Num(5), Num(1), Num(1)>>>>

(***************************************************************************)
(* extract_miri_data, called on its own                                    *)
(***************************************************************************)
MaxTableRows == 4

\* The table of R rows whose wavelength and time columns are a, b and t; the
\* flux columns hold one distinct sample per row.
Table(R, a, b, t) ==
    [wla |-> [i \in 1..R |-> Num(a[i])],
     wlb |-> [i \in 1..R |-> Num(b[i])],
     MJD |-> [i \in 1..R |-> Num(t[i])],
     fluxa |-> [i \in 1..R |-> Num(i)],
     fluxb |-> [i \in 1..R |-> Num(100 + i)]]

InitExtract ==
    /\ pc = "call"
    /\ out = Raise("none")
    /\ \E R \in 0..MaxTableRows :
         \E a \in [1..R -> 1..3], b \in [1..R -> 1..2], t \in [1..R -> 1..2] :
            req = [fn |-> "extract_miri_data", miri_table |-> Table(R, a, b, t)]

CallExtract ==
    /\ pc = "call"
    /\ req.fn = "extract_miri_data"
    /\ out' = extract_miri_data(req.miri_table)
    /\ pc' = "done"
    /\ UNCHANGED req

NextExtract == CallExtract

SpecExtract == InitExtract /\ [][NextExtract]_vars

TableRows(t) == Len(t.MJD)

UniqueCount(col) == Cardinality({col[i] : i \in 1..Len(col)})

\* C3: on a table of R >= 1 rows, extract_miri_data succeeds if and only if
\* R is a multiple of the number U of unique wavelengths of each channel;
\* on success each channel's flux grid has shape (U, R / U) and holds every
\* sample of the flux column exactly once, in order; otherwise the call ends
\* in the reshape's ValueError and returns no grid.
C3_ExtractShape ==
    (pc = "done" /\ TableRows(req.miri_table) >= 1) =>
        LET t == req.miri_table
            R == TableRows(t)
            Ua == UniqueCount(t.wla)
            Ub == UniqueCount(t.wlb)
        IN  /\ out.status = "ok" <=> (R % Ua = 0 /\ R % Ub = 0)
            /\ out.status # "ok" => out = Raise("ValueError")
            /\ out.status = "ok" =>
                  /\ out.value.spectra_a_2d.rows = Ua
                  /\ out.value.spectra_a_2d.cols * Ua = R
                  /\ Flatten(out.value.spectra_a_2d.v) = t.fluxa
                  /\ out.value.spectra_b_2d.rows = Ub
                  /\ out.value.spectra_b_2d.cols * Ub = R
                  /\ Flatten(out.value.spectra_b_2d.v) = t.fluxb

\* A table whose four rows form a 2 x 2 grid in channel A, extracted.
C3_Witness ==
    /\ pc = "done"
    /\ TableRows(req.miri_table) = 4
    /\ UniqueCount(req.miri_table.wla) = 2
    /\ out.status = "ok"
    /\ out.value.spectra_a_2d.v = <<<<Num(1), Num(2)>>, <<Num(3), Num(4)>>>>

\* C13 (the claim as stated): for every table on which extract_miri_data
\* succeeds, each returned flux grid has as many rows as its channel has
\* unique wavelengths and as many columns as unique_times has entries.
C13_FluxGridInvariant ==
    (pc = "done" /\ out.status = "ok") =>
        /\ out.value.spectra_a_2d.rows = Len(out.value.unique_wavelengths_a)
        /\ out.value.spectra_a_2d.cols = Len(out.value.unique_times)
        /\ out.value.spectra_b_2d.rows = Len(out.value.unique_wavelengths_b)
        /\ out.value.spectra_b_2d.cols = Len(out.value.unique_times)

(***************************************************************************)
(* plot_enhanced_lightcurve_map, called on its own                         *)
(***************************************************************************)
SamplesMap == {NaN, PInf, Num(1), Num(2)}

\* The wavelength axis of a grid of W rows: 2.05, 2.10, ... micron, so that
\* row 61 is 5.05 and row 62 is 5.10.
WavelengthAxis(W) == [i \in 1..W |-> Rat(200 + 5 * i, 100)]

\* The time axis of a grid of T columns, in days: 3, 4, ...
TimeAxis(T) == [j \in 1..T |-> Num(2 + j)]

\* The flux grid of a request: head_rows rows filled with head_fill, then
\* the rows of tail.
FluxData(r) ==
    Grid(r.head_rows + Len(r.tail), r.num_timepoints,
         [i \in 1..(r.head_rows + Len(r.tail)) |->
             IF i <= r.head_rows THEN [j \in 1..r.num_timepoints |-> r.head_fill]
             ELSE r.tail[i - r.head_rows]])

InitMap ==
    /\ pc = "call"
    /\ out = Raise("none")
    /\ \E T \in 0..MaxT :
         \E row \in [1..T -> SamplesMap], k \in 0..2, h \in {0, 59, 60},
            fill \in {NaN, Num(1)}, b \in -1..MaxBin,
            mode \in {"variability", "flux", "contour"} :
            req = [fn |-> "plot_enhanced_lightcurve_map",
                   head_rows |-> h, head_fill |-> fill,
                   tail |-> SubSeq(<<row, [j \in 1..T |-> Num(j)]>>, 1, k),
                   num_timepoints |-> T,
                   bin_size |-> Num(b), plot_type |-> mode]

CallMap ==
    /\ pc = "call"
    /\ req.fn = "plot_enhanced_lightcurve_map"
    /\ out' = plot_enhanced_lightcurve_map(FluxData(req),
                  WavelengthAxis(FluxData(req).rows),
                  TimeAxis(req.num_timepoints), req.bin_size, req.plot_type)
    /\ pc' = "done"
    /\ UNCHANGED req

NextMap == CallMap

SpecMap == InitMap /\ [][NextMap]_vars

\* Row i of the binned flux of the request of a call that got past the
\* binning.
BinnedRow(i) ==
    bin_flux_array(Grid(1, req.num_timepoints, <<FluxData(req).v[i]>>),
                   req.bin_size).value.v[1]

\* The call computed the z grid: it ended at the finite-values check or at
\* the writing of the figure.
ZComputed == pc = "done" /\ out.at \in {"no_finite_values", "write_html"}

\* C5: with plot_type 'variability', every position of z whose binned flux is
\* not finite (NaN or an infinity) holds NaN, and every position whose binned
\* flux is finite holds ((flux / NaN-ignoring median of its row) - 1) * 100;
\* z row i is binned flux row i + 60.
C5_VariabilityFiniteOnly ==
    (ZComputed /\ req.plot_type = "variability") =>
        /\ out.z_data.cols = out.flux_shape[2]
        /\ out.z_data.rows =
              IF out.flux_shape[1] > LeadingTrim
              THEN out.flux_shape[1] - LeadingTrim ELSE 0
        /\ \A i \in 1..out.z_data.rows : \A j \in 1..out.z_data.cols :
              LET row == BinnedRow(i + LeadingTrim)
              IN  IF IsFinite(row[j])
                  THEN out.z_data.v[i][j] =
                          Mul(Sub(Div(row[j], NanMedian(row)), Num(1)), Num(100))
                  ELSE out.z_data.v[i][j] = NaN

\* A variability map written with an infinite and a finite flux in one row.
C5_Witness ==
    /\ ZComputed
    /\ req.plot_type = "variability"
    /\ req.bin_size = Num(1)
    /\ req.head_rows = 60
    /\ req.tail = <<<<Num(1), PInf, Num(2)>>>>
    /\ out.written
    /\ out.z_data.v = <<<<Num(-50), NaN, Num(0)>>>>

\* C6: with plot_type 'flux', z is the binned flux grid without its first 60
\* rows, value for value, and the wavelength grid, the time grid and z have
\* one shape: 60 rows fewer than the binned flux, and its columns.
C6_FluxModeUnchanged ==
    (ZComputed /\ req.plot_type = "flux") =>
        LET rows == IF out.flux_shape[1] > LeadingTrim
                    THEN out.flux_shape[1] - LeadingTrim ELSE 0
        IN  /\ out.flux_shape =
                  <<FluxData(req).rows, req.num_timepoints \div req.bin_size.n>>
            /\ out.z_data.rows = rows
            /\ out.z_data.cols = out.flux_shape[2]
            /\ Len(out.z_data.v) = rows
            /\ \A i \in 1..rows : out.z_data.v[i] = BinnedRow(i + LeadingTrim)
            /\ out.wavelength_grid.rows = rows
            /\ out.wavelength_grid.cols = out.z_data.cols
            /\ out.time_grid.rows = rows
            /\ out.time_grid.cols = out.z_data.cols
            /\ \A i \in 1..rows :
                  /\ Len(out.wavelength_grid.v[i]) = out.z_data.cols
                  /\ Len(out.time_grid.v[i]) = out.z_data.cols
                  /\ \A j \in 1..out.z_data.cols :
                        out.wavelength_grid.v[i][j] =
                            WavelengthAxis(out.flux_shape[1])[i + LeadingTrim]

\* A flux map of a 62-row grid binned by 2 with a remainder: two rows left.
C6_Witness ==
    /\ ZComputed
    /\ req.plot_type = "flux"
    /\ req.bin_size = Num(2)
    /\ req.head_rows = 60
    /\ req.tail = <<<<Num(1), Num(2), NaN>>, <<Num(1), Num(2), Num(3)>>>>
    /\ out.written
    /\ out.z_data.v = <<<<Rat(3, 2)>>, <<Rat(3, 2)>>>>
    /\ out.wavelength_grid.v = <<<<Rat(505, 100)>>, <<Rat(51, 10)>>>>

\* C9 (the claim as stated, any error counted as the failure it asks for):
\* a call with a plot_type other than 'variability' and 'flux' never returns
\* normally, whatever the grid.
C9_InvalidModeFails ==
    (pc = "done" /\ req.plot_type \notin {"variability", "flux"}) =>
        out.status # "ok"

\* C10 (the claim as stated): when the binned time axis is empty, or no
\* finite value is left in z after the leading trim, the call raises an
\* error to its caller and does not return normally.
C10_EmptyResultRaised ==
    (pc = "done" /\ out.at \in {"no_time_points", "no_finite_values"}) =>
        out.status # "ok"

(***************************************************************************)
(* plot_specific_wavelength_lightcurves, called on its own                 *)
(***************************************************************************)
SamplesBand == {NaN, Num(1), Num(3)}

\* Wavelength axes of up to two rows: in CH4, in CO, in neither, and on the
\* bounds of the two bands.
BandAxes ==
    {<<>>, <<Rat(25, 10)>>, <<Num(3)>>, <<Rat(22, 10), Rat(24, 10)>>,
     <<Rat(23, 10), Rat(48, 10)>>, <<Rat(214, 100), Rat(505, 100)>>,
     <<Rat(46, 10), Rat(5, 1)>>}

InitBand ==
    /\ pc = "call"
    /\ out = Raise("none")
    /\ \E w \in BandAxes, T \in 0..MaxT, b \in -1..MaxBin :
         \E v \in [1..Len(w) -> [1..T -> SamplesBand]] :
            req = [fn |-> "plot_specific_wavelength_lightcurves",
                   flux_data |-> Grid(Len(w), T, v), wavelengths |-> w,
                   bin_size |-> Num(b)]

CallBand ==
    /\ pc = "call"
    /\ req.fn = "plot_specific_wavelength_lightcurves"
    /\ out' = plot_specific_wavelength_lightcurves(req.flux_data, req.wavelengths,
                  TimeAxis(req.flux_data.cols), req.bin_size)
    /\ pc' = "done"
    /\ UNCHANGED req

NextBand == CallBand

SpecBand == InitBand /\ [][NextBand]_vars

\* C4 (the claim as stated): for every grid of shape (W, T) and positive
\* bin_size, the elapsed-hours axis made from every bin_size-th timestamp is
\* as long as the binned flux has columns, T div bin_size, so each band
\* series has one value per point of the time axis it is drawn against.
C4_TimeAxisAligned ==
    (pc = "done" /\ out.status = "ok") =>
        /\ Len(out.time_hours) = req.flux_data.cols \div req.bin_size.n
        /\ Len(out.time_hours) = out.flux.cols
        /\ Len(out.ch4_lightcurve) = Len(out.time_hours)
        /\ Len(out.co_lightcurve) = Len(out.time_hours)

\* The mean over the rows of the band, per time step, before normalisation.
BandSeries(range) ==
    LET ind == BandIndices(req.wavelengths, range)
    IN  [j \in 1..out.flux.cols |->
            Mean([r \in 1..Len(ind) |-> out.flux.v[ind[r]][j]])]

\* C7 (the claim as stated): each band's series is the per-time-step mean
\* over the band's rows divided by the NaN-ignoring median of that series, so
\* the returned series has NaN-ignoring median 1 whenever that median is
\* finite and not zero, also when some time bins of the series are NaN.
C7_BandMedianOne ==
    (pc = "done" /\ out.status = "ok") =>
        \A band \in {"ch4", "co"} :
            LET series == BandSeries(IF band = "ch4" THEN ch4_range ELSE co_range)
                got == IF band = "ch4" THEN out.ch4_lightcurve ELSE out.co_lightcurve
                m == NanMedian(series)
            IN  /\ got = [j \in 1..Len(series) |-> Div(series[j], m)]
                /\ (IsFinite(m) /\ m.n # 0) => NanMedian(got) = Num(1)

(***************************************************************************)
(* app.py: visualize, one request from the routing to the response         *)
(***************************************************************************)
\* bin_size=25 of the two map calls, and the default of the light curves
DefaultBinSize == 25

MaxWindows == 2

MaxVisTableRows == 2

SamplesVis == {NaN, Num(0), Num(1), Num(2)}

\* A row of the NIRSpec flux file: each value of w held for DefaultBinSize
\* timepoints, then rem more timepoints of flux 1.
ExpandRow(w, rem) ==
    [j \in 1..(DefaultBinSize * Len(w) + rem) |->
        IF j <= DefaultBinSize * Len(w) THEN w[((j - 1) \div DefaultBinSize) + 1]
        ELSE Num(1)]

\* The flux grid of the NIRSpec files of a request: head_rows rows filled
\* with 1, then the rows of windows expanded.
NirspecFlux(r) ==
    LET cols == DefaultBinSize * r.num_windows + r.remainder
    IN  Grid(r.head_rows + Len(r.windows), cols,
            [i \in 1..(r.head_rows + Len(r.windows)) |->
                IF i <= r.head_rows THEN [j \in 1..cols |-> Num(1)]
                ELSE ExpandRow(r.windows[i - r.head_rows], r.remainder)])

\* What visualize has in flux_data, wavelengths and times when it reaches the
\* plots, or the exception of the MIRI extraction.
Loaded(r) ==
    IF r.instrument = "nirspec" THEN
        \* load_nirspec_data: three arrays read from the configured files
        LET flux_data == NirspecFlux(r)
        IN  Ok([flux_data |-> flux_data,
                wavelengths |-> WavelengthAxis(flux_data.rows),
                times |-> TimeAxis(flux_data.cols)])
    ELSE
        LET extracted == extract_miri_data(r.miri_table)
        IN  IF extracted.status # "ok" THEN Raise(extracted.status)
            ELSE
            LET spectra == extracted.value.spectra_a_2d
                normalized == normalize_spectrum(Array2(spectra)).value
            IN  Ok([flux_data |-> Grid(normalized.rows, normalized.cols, normalized.v),
                    wavelengths |-> extracted.value.unique_wavelengths_a,
                    times |-> extracted.value.unique_times])

NoTable == Table(0, <<>>, <<>>, <<>>)

\* The state of a request: the response sent (none yet, the page, the 500
\* answer or the redirect to the upload form) and the plot files written.
Request(response, artifacts) == [response |-> response, artifacts |-> artifacts]

InitVisualize ==
    /\ pc = "route"
    /\ out = Request("none", {})
    /\ \/ \E n \in 0..MaxWindows, rem \in {0, 1}, h \in {0, 60}, k \in 0..2 :
            \E row \in [1..n -> SamplesVis] :
                req = [fn |-> "visualize", instrument |-> "nirspec",
                       head_rows |-> h, num_windows |-> n, remainder |-> rem,
                       windows |-> SubSeq(<<row, [j \in 1..n |-> Num(j)]>>, 1, k),
                       miri_table |-> NoTable]
       \/ \E R \in 0..MaxVisTableRows :
            \E a \in [1..R -> 1..3], b \in [1..R -> 1..2], t \in [1..R -> 1..2] :
                req = [fn |-> "visualize", instrument |-> "miri",
                       head_rows |-> 0, num_windows |-> 0, remainder |-> 0,
                       windows |-> <<>>, miri_table |-> Table(R, a, b, t)]
       \/ req = [fn |-> "visualize", instrument |-> "other",
                 head_rows |-> 0, num_windows |-> 0, remainder |-> 0,
                 windows |-> <<>>, miri_table |-> NoTable]

\* The filename names no instrument: flash and redirect.  Otherwise the data
\* are loaded; an exception of the MIRI extraction is answered with 500.
VisLoad ==
    /\ pc = "route"
    /\ IF req.instrument \notin {"nirspec", "miri"}
       THEN pc' = "responded" /\ out' = [out EXCEPT !.response = "redirect"]
       ELSE IF Loaded(req).status # "ok"
       THEN pc' = "responded" /\ out' = [out EXCEPT !.response = "error"]
       ELSE pc' = "variability" /\ out' = out
    /\ UNCHANGED req

\* One call of plot_enhanced_lightcurve_map from visualize: the file is
\* written by a call that reaches write_html; an exception is answered with
\* 500; a call that returns goes on to the next plot.
VisMap(stage, plot_type, next) ==
    /\ pc = stage
    /\ LET d == Loaded(req).value
           r == plot_enhanced_lightcurve_map(d.flux_data, d.wavelengths, d.times,
                                             Num(DefaultBinSize), plot_type)
       IN  IF r.status # "ok"
           THEN pc' = "responded" /\ out' = [out EXCEPT !.response = "error"]
           ELSE /\ pc' = next
                /\ out' = [out EXCEPT !.artifacts =
                              IF r.written THEN @ \cup {stage} ELSE @]
    /\ UNCHANGED req

VisVariability == VisMap("variability", "variability", "flux")

VisFlux == VisMap("flux", "flux", "lightcurves")

VisLightcurves ==
    /\ pc = "lightcurves"
    /\ LET d == Loaded(req).value
           r == plot_specific_wavelength_lightcurves(d.flux_data, d.wavelengths,
                                                     d.times, Num(DefaultBinSize))
       IN  IF r.status # "ok"
           THEN pc' = "responded" /\ out' = [out EXCEPT !.response = "error"]
           ELSE /\ pc' = "render"
                /\ out' = [out EXCEPT !.artifacts =
                              IF r.written THEN @ \cup {"lightcurves"} ELSE @]
    /\ UNCHANGED req

\* "Plots generated successfully": render_template of the page that links
\* the three plot files.
VisRender ==
    /\ pc = "render"
    /\ pc' = "responded"
    /\ out' = [out EXCEPT !.response = "rendered"]
    /\ UNCHANGED req

NextVisualize == VisLoad \/ VisVariability \/ VisFlux \/ VisLightcurves \/ VisRender

SpecVisualize == InitVisualize /\ [][NextVisualize]_vars

AllArtifacts == {"variability", "flux", "lightcurves"}

\* C11 (the claim as stated): a request is all or nothing.  When it has been
\* answered, plot files have been written only if all three stages wrote
\* theirs and the page was rendered, and a request that ended in the error
\* answer has written none.
C11_AtomicRequest ==
    pc = "responded" =>
        /\ out.artifacts # {} =>
              (out.response = "rendered" /\ out.artifacts = AllArtifacts)
        /\ out.response = "rendered" => out.artifacts = AllArtifacts
        /\ out.response = "error" => out.artifacts = {}

(***************************************************************************)
(* normalize_spectrum applied to its own result                            *)
(***************************************************************************)
SamplesIdem1D == {NaN, PInf, Num(-7), Num(0), Num(7), Num(28)}

SamplesIdem2D == {NaN, Num(-7), Num(7), Num(28)}

InitIdem ==
    /\ pc = "call"
    /\ out = [first |-> Raise("none"), second |-> Raise("none")]
    /\ \/ \E n \in 0..MaxLen :
            \E a \in [1..n -> SamplesIdem1D] :
                req = [fn |-> "normalize_spectrum", data |-> Array1(a)]
       \/ \E r \in GridRows, c \in 0..MaxT :
            \E v \in [1..r -> [1..c -> SamplesIdem2D]] :
                req = [fn |-> "normalize_spectrum", data |-> Array2(Grid(r, c, v))]

NormalizeFirst ==
    /\ pc = "call"
    /\ out' = [out EXCEPT !.first = normalize_spectrum(req.data)]
    /\ pc' = "once"
    /\ UNCHANGED req

NormalizeSecond ==
    /\ pc = "once"
    /\ out' = [out EXCEPT !.second = normalize_spectrum(out.first.value)]
    /\ pc' = "twice"
    /\ UNCHANGED req

NextIdem == NormalizeFirst \/ NormalizeSecond

SpecIdem == InitIdem /\ [][NextIdem]_vars

\* The rows of an array: the array itself when it is 1-D.
RowsOf(a) == IF a.ndim = 1 THEN <<a.v>> ELSE a.v

\* The NaN-ignoring median of the row is finite and not zero.
MedianUsable(row) == IsFinite(NanMedian(row)) /\ NanMedian(row).n # 0

\* The samples of the row that are not NaN are odd in number, or the two
\* in the middle of their order are equal.
SingleMiddle(row) ==
    LET sorted == Sort(SelectSeq(row, NotNaN))
        n == Len(sorted)
    IN  n % 2 = 1 \/ (n > 0 /\ sorted[n \div 2] = sorted[(n \div 2) + 1])

Init ==
    InitBin \/ InitNorm \/ InitExtract \/ InitMap \/ InitBand \/ InitVisualize
    \/ InitIdem

Next ==
    NextBin \/ NextNorm \/ NextExtract \/ NextMap \/ NextBand \/ NextVisualize
    \/ NextIdem

Spec == Init /\ [][Next]_vars

====
